---- MODULE Spec2Model ----
(***************************************************************************)
(* Model of hexrd/findorientations.py: the clustering-strategy registry    *)
(* (clustering_algorithm), the registered strategies, compute_centroids,   *)
(* the dispatch run_cluster and the orchestrator find_orientations.        *)
(*                                                                         *)
(* Conventions.                                                            *)
(*  - A completeness value or threshold k stands for the real k/ComplDen.  *)
(*  - min_samples is kept multiplied by ComplDen for the same reason.      *)
(*  - Python's None is the string None where a name is expected and NoneNum*)
(*    where a number is expected.                                          *)
(*  - The quaternion in column j of the pool is the token j; a centroid is *)
(*    a record telling how it was produced: a pool column taken as it is,  *)
(*    or rot.quatAverage over a list of columns.                           *)
(*  - The numerical backends (sklearn dbscan, parallel_dbscan, scipy       *)
(*    fclusterdata) are external: their label vectors are chosen           *)
(*    nondeterministically among the vectors their contract allows, so     *)
(*    cl_radius and min_samples, which only steer that choice, are passed  *)
(*    on but do not narrow it.                                             *)
(*  - Spec is the module used as a library (registrations and direct calls *)
(*    of run_cluster, compute_centroids, get_supported_...); SpecFO is the *)
(*    module run as the program (load, then find_orientations).            *)
(***************************************************************************)
EXTENDS Integers, Sequences, FiniteSets, TLC

\* ------------------------------------------------------------------ bounds
MaxN == 2            \* columns of a quaternion pool
ComplDen == 2        \* completeness values are 0/ComplDen .. ComplDen/ComplDen
MaxId == 3           \* largest cluster id handed to compute_centroids directly
MaxSeedRefl == 3     \* seed reflections one simulated grain can show
MaxSeeds == 2        \* seed hkls handed to generate_orientation_fibers
MaxSpots == 2        \* labeled blobs on the map of one seed hkl
MaxFiberCols == 1    \* distinct quaternions on the fiber of one blob

\* ------------------------------------------------------- program constants
ngrains == 100

None == "None"
NoneNum == -1

VARIABLES
    registry,              \* _clustering_algorithm_dict
    nload,                 \* module-level decorators executed so far
    reg_call,              \* key, fn and fallback of the last use of the decorator
    reg_error,             \* what the last use of the decorator raised
    supported,             \* last value of get_supported_clustering_algorithms()
    have_sklearn,          \* module flag
    have_parallel_dbscan,  \* module flag
    pc,                    \* position of the running call
    entry,                 \* the function the caller invoked
    cfg_completeness,      \* cfg.find_orientations.clustering.completeness
    cfg_algorithm,         \* cfg.find_orientations.clustering.algorithm
    compl,                 \* run_cluster argument / paintGrid result
    qfib,                  \* run_cluster argument: the pool (quats)
    compl_thresh,          \* run_cluster argument
    min_samples,           \* run_cluster argument / find_orientations local
    min_compl,             \* run_cluster local
    qfib_r,                \* run_cluster local
    algorithm,             \* run_cluster local
    algorithm_used,        \* run_cluster local
    labels,                \* the backend's label vector inside the strategy
    cl,                    \* run_cluster local / compute_centroids argument
    qbar,                  \* run_cluster local / compute_centroids result
    calls,                 \* callables invoked by the running call, in order
    log,                   \* logger.info records of the running call
    clusters_dat,          \* contents written to clusters.dat
    error,                 \* exception leaving the running call
    result,                \* value returned by run_cluster / compute_centroids
    grid,                  \* state of the file cfg...use_quaternion_grid names
    hkl_ids,               \* find_orientations local: None or a list
    seed_floor,            \* np.floor(np.average(num_seed_refls))
    stages,                \* collaborators find_orientations called, in order
    accepted_dat,          \* contents written to accepted_orientations.dat
    coms                   \* generate_orientation_fibers local: the blobs of each seed hkl

rcvars == <<entry, cfg_completeness, cfg_algorithm, compl, qfib, compl_thresh,
            min_samples, min_compl, qfib_r, algorithm, algorithm_used, labels,
            cl, qbar, calls, log, clusters_dat, error, result, supported>>
regvars == <<registry, nload, reg_call, reg_error>>
flagvars == <<have_sklearn, have_parallel_dbscan>>
fovars == <<grid, hkl_ids, seed_floor, stages, accepted_dat>>
vars == <<regvars, flagvars, pc, rcvars, fovars, coms>>

\* ----------------------------------------------------------------- helpers
Range(s) == {s[i] : i \in DOMAIN s}

Levels == 0..ComplDen

NoError == [type |-> None, msg |-> None, names |-> <<>>]
NoResult == [returned |-> FALSE, qbar |-> <<>>, cl |-> <<>>]

\* the columns of a pool of n quaternions
Pool(n) == [j \in 1..n |-> j]

\* a[:, mask] : the columns of a whose mask entry is true, in order
RECURSIVE Select(_, _)
Select(a, mask) ==
    IF Len(a) = 0 THEN <<>>
    ELSE (IF mask[1] THEN <<a[1]>> ELSE <<>>) \o
         Select(Tail(a), [j \in 1..(Len(a) - 1) |-> mask[j + 1]])

\* np.unique: the distinct values, ascending
unique(a) ==
    LET S == Range(a)
    IN  CHOOSE s \in [1..Cardinality(S) -> S] :
            \A i, j \in 1..Cardinality(S) : i < j => s[i] < s[j]

\* ---------------------------------------------------------------- registry
clustering_option(fn, fallback) == [fn |-> fn, fallback |-> fallback]

EmptyDict == [k \in {} |-> clustering_option(None, None)]

\* dict.update({key: val})
dict_update(d, key, val) ==
    [k \in (DOMAIN d) \cup {key} |-> IF k = key THEN val ELSE d[k]]

\* the decorator with the assert dropped
clustering_algorithm_no_assert(d, key, fn, fallback) ==
    [error |-> None, dict |-> dict_update(d, key, clustering_option(fn, fallback))]

\* clustering_algorithm(key, fallback)(fn) applied to the registry d
clustering_algorithm(d, key, fn, fallback) ==
    IF key \in DOMAIN d
    THEN [error |-> "AssertionError", dict |-> d]
    ELSE [error |-> None,
          dict |-> dict_update(d, key, clustering_option(fn, fallback))]

\* the six definitions with fclusterdata falling back to dbscan
Declared_fcluster_falls_back ==
    << [key |-> "qim-dbscan", fn |-> "cluster_quaternion_im_dbscan", fallback |-> None],
       [key |-> "omp-dbscan", fn |-> "cluster_parallel_dbscan", fallback |-> "homochoric-dbscan"],
       [key |-> "homochoric-dbscan", fn |-> "cluster_homochoric_dbscan", fallback |-> "dbscan"],
       [key |-> "fclusterdata", fn |-> "cluster_fcluster", fallback |-> "dbscan"],
       [key |-> "qim-fclusterdata", fn |-> "cluster_qim_fclusterdata", fallback |-> "fclusterdata"],
       [key |-> "dbscan", fn |-> "cluster_dbscan", fallback |-> "fclusterdata"] >>

\* the six decorated definitions of the module, in source order
Declared ==
    << [key |-> "qim-dbscan", fn |-> "cluster_quaternion_im_dbscan", fallback |-> None],
       [key |-> "omp-dbscan", fn |-> "cluster_parallel_dbscan", fallback |-> "homochoric-dbscan"],
       [key |-> "homochoric-dbscan", fn |-> "cluster_homochoric_dbscan", fallback |-> "dbscan"],
       [key |-> "fclusterdata", fn |-> "cluster_fcluster", fallback |-> None],
       [key |-> "qim-fclusterdata", fn |-> "cluster_qim_fclusterdata", fallback |-> "fclusterdata"],
       [key |-> "dbscan", fn |-> "cluster_dbscan", fallback |-> "fclusterdata"] >>

DeclaredKeys == {Declared[i].key : i \in DOMAIN Declared}

\* names a configuration file can carry: the declared ones, one that a later
\* registration may add, one that nothing registers
AlgNames == DeclaredKeys \cup {"custom", "bogus"}

\* later uses of the decorator (a plug-in, a re-import)
ExtraKeys == {"dbscan", "custom"}
ExtraFns == {"cluster_fcluster"}
ExtraFallbacks == {None}

get_supported_clustering_algorithms(d) == DOMAIN d

\* -------------------------------------------------------------- strategies
\* label vectors sklearn's dbscan (and parallel_dbscan.omp_dbscan) can return
\* for n points: -1 for noise, clusters numbered 0, 1, ... without gaps
dbscan_labels(n) ==
    {l \in [1..n -> -1..(n - 1)] :
        \A j \in 1..n : l[j] > 0 => \E i \in 1..n : l[i] = l[j] - 1}

\* flat cluster vectors scipy's fclusterdata can return: 1, 2, ... without gaps
fclusterdata_labels(n) ==
    {l \in [1..n -> 1..n] :
        \A j \in 1..n : l[j] > 1 => \E i \in 1..n : l[i] = l[j] - 1}

\* labels.astype(int, copy=False) + d
shifted(l, d) == [j \in DOMAIN l |-> l[j] + d]

Unavailable == [error |-> "ClusterMethodUnavailableError", cl |-> <<>>, labels |-> <<>>]
Returned(l, d) == [error |-> None, cl |-> shifted(l, d), labels |-> l]

cluster_quaternion_im_dbscan(q, ms, sk, pdb) ==
    IF ~sk THEN {Unavailable}
    ELSE {Returned(l, 1) : l \in dbscan_labels(Len(q))}

cluster_parallel_dbscan(q, ms, sk, pdb) ==
    IF ~pdb THEN {Unavailable}
    ELSE {Returned(l, 1) : l \in dbscan_labels(Len(q))}

cluster_homochoric_dbscan(q, ms, sk, pdb) ==
    IF ~sk THEN {Unavailable}
    ELSE {Returned(l, 1) : l \in dbscan_labels(Len(q))}

cluster_fcluster(q, ms, sk, pdb) ==
    {Returned(l, 0) : l \in fclusterdata_labels(Len(q))}

cluster_qim_fclusterdata(q, ms, sk, pdb) ==
    IF ~sk THEN {Unavailable}
    ELSE {Returned(l, 1) : l \in fclusterdata_labels(Len(q))}

\* cluster_dbscan with the "+ 1" forgotten
cluster_dbscan_unshifted(q, ms, sk, pdb) ==
    IF ~sk THEN {Unavailable}
    ELSE {Returned(l, 0) : l \in dbscan_labels(Len(q))}

cluster_dbscan(q, ms, sk, pdb) ==
    IF ~sk THEN {Unavailable}
    ELSE {Returned(l, 1) : l \in dbscan_labels(Len(q))}

\* cl_dict[algorithm].fn(*cluster_args): every outcome the call can have
call_fn(fn, q, ms, sk, pdb) ==
    CASE fn = "cluster_quaternion_im_dbscan" -> cluster_quaternion_im_dbscan(q, ms, sk, pdb)
      [] fn = "cluster_parallel_dbscan" -> cluster_parallel_dbscan(q, ms, sk, pdb)
      [] fn = "cluster_homochoric_dbscan" -> cluster_homochoric_dbscan(q, ms, sk, pdb)
      [] fn = "cluster_fcluster" -> cluster_fcluster(q, ms, sk, pdb)
      [] fn = "cluster_qim_fclusterdata" -> cluster_qim_fclusterdata(q, ms, sk, pdb)
      [] fn = "cluster_dbscan" -> cluster_dbscan(q, ms, sk, pdb)

\* -------------------------------------------------------- compute_centroids
quatAverage(quats_in_cluster) == [kind |-> "quatAverage", of |-> quats_in_cluster]
column(q) == [kind |-> "column", of |-> q]

\* the mask of the unused npts line: cl == i + 1 (i counted from 0)
member_mask_by_position(ids, i, cl_id) == [j \in DOMAIN ids |-> ids[j] = i]

\* cl == cl_id, for the i-th entry cl_id of clusters (i counted from 1)
member_mask(ids, i, cl_id) == [j \in DOMAIN ids |-> ids[j] = cl_id]

compute_centroids(q, ids) ==
    IF Len(ids) = 0
    THEN [error |-> "IndexError", qbar |-> <<>>]           \* clusters[0] of an empty array
    ELSE LET clusters0 == unique(ids)
         IN  IF ~(clusters0[1] >= 0)
             THEN [error |-> "AssertionError", qbar |-> <<>>]
             ELSE LET clusters == IF clusters0[1] = 0 THEN Tail(clusters0)
                                  ELSE clusters0
                  IN  [error |-> None,
                       qbar |-> [i \in 1..Len(clusters) |->
                                   quatAverage(Select(q, member_mask(ids, i, clusters[i])))]]

\* ------------------------------------------------------------- module load
\* the flags come from the guarded imports, the registry from the decorators
Init ==
    /\ registry = EmptyDict
    /\ nload = 0
    /\ reg_call = [key |-> None, fn |-> None, fallback |-> None]
    /\ reg_error = None
    /\ supported = {}
    /\ have_sklearn \in BOOLEAN
    /\ have_parallel_dbscan \in BOOLEAN
    /\ pc = "load"
    /\ entry = None
    /\ cfg_completeness = 0
    /\ cfg_algorithm = None
    /\ compl = <<>>
    /\ qfib = <<>>
    /\ compl_thresh = NoneNum
    /\ min_samples = NoneNum
    /\ min_compl = 0
    /\ qfib_r = <<>>
    /\ algorithm = None
    /\ algorithm_used = None
    /\ labels = <<>>
    /\ cl = <<>>
    /\ qbar = <<>>
    /\ calls = <<>>
    /\ log = <<>>
    /\ clusters_dat = <<>>
    /\ error = NoError
    /\ result = NoResult
    /\ grid = None
    /\ hkl_ids = None
    /\ seed_floor = 0
    /\ stages = <<>>
    /\ accepted_dat = <<>>
    /\ coms = <<>>

\* one decorated definition of the module is executed
LoadModule ==
    /\ pc = "load"
    /\ nload < Len(Declared)
    /\ LET d == Declared[nload + 1]
           r == clustering_algorithm(registry, d.key, d.fn, d.fallback)
       IN  /\ registry' = r.dict
           /\ reg_error' = r.error
           /\ reg_call' = d
           /\ nload' = nload + 1
           /\ pc' = IF r.error # None THEN "raised"
                    ELSE IF nload + 1 = Len(Declared) THEN "idle" ELSE "load"
    /\ UNCHANGED <<flagvars, coms, rcvars, fovars>>

\* the decorator is used again after the module is loaded
Register ==
    /\ pc = "idle"
    /\ \E key \in ExtraKeys, fn \in ExtraFns, fallback \in ExtraFallbacks :
          LET r == clustering_algorithm(registry, key, fn, fallback)
          IN  /\ registry' = r.dict
              /\ reg_error' = r.error
              /\ reg_call' = [key |-> key, fn |-> fn, fallback |-> fallback]
    /\ UNCHANGED <<nload, flagvars, coms, pc, rcvars, fovars>>

\* -------------------------------------------------------------- run_cluster
NoOption == clustering_option(None, None)

\* a name the registry lacks is served by fclusterdata
lookup_with_default(d, a) ==
    IF a \in DOMAIN d THEN [found |-> TRUE, option |-> d[a]]
    ELSE [found |-> "fclusterdata" \in DOMAIN d,
          option |-> IF "fclusterdata" \in DOMAIN d THEN d["fclusterdata"] ELSE NoOption]

\* "algorithm not in cl_dict" and cl_dict[algorithm]
lookup(d, a) ==
    IF a \in DOMAIN d THEN [found |-> TRUE, option |-> d[a]]
    ELSE [found |-> FALSE, option |-> NoOption]

\* min_compl after the override check
effective_threshold_ignoring_override(cc, ct) == cc

effective_threshold(cc, ct) == IF ct # NoneNum THEN ct ELSE cc

\* np.array(compl) >= min_compl
above_or_equal(c, mc) == [j \in DOMAIN c |-> c[j] >= mc]

\* np.array(compl) > min_compl
above(c, mc) == [j \in DOMAIN c |-> c[j] > mc]

count_true(mask) == Cardinality({j \in DOMAIN mask : mask[j]})

\* attributes an instance of ClusterMethodUnavailableError has: the class body
\* is "pass", so only what Exception gives
ExceptionAttrs == {"args", "message"}

Feeding(n) == [msg |-> "Feeding orientations to clustering", names |-> <<>>]
Trying(a) == [msg |-> "Trying", names |-> <<a>>]
FailedTrying(a, fb) == [msg |-> "failed, trying", names |-> <<a, fb>>]
ClusteringDone == [msg |-> "clustering done, computing centroids", names |-> <<>>]
ClusteringTook == [msg |-> "clustering took", names |-> <<>>]
Found == [msg |-> "Found orientation clusters", names |-> <<>>]

NotRecognized(a) == [type |-> "RuntimeError", msg |-> "not recognized", names |-> <<a>>]
NoFallback(a) == [type |-> "RuntimeError", msg |-> "failed, no fallback", names |-> <<a>>]
NoAttribute(a) == [type |-> "AttributeError", msg |-> a, names |-> <<>>]
Raised(t) == [type |-> t, msg |-> None, names |-> <<>>]

\* run_cluster(c, q, qsym, cfg, min_samples=ms, compl_thresh=ct) up to the
\* three-way branch on num_above
run_cluster_begin(who, c, q, cc, alg, ct, ms) ==
    LET mc == effective_threshold(cc, ct)
        mask == above(c, mc)
        num_above == count_true(mask)
    IN  /\ entry' = who
        /\ compl' = c
        /\ qfib' = q
        /\ cfg_completeness' = cc
        /\ cfg_algorithm' = alg
        /\ compl_thresh' = ct
        /\ min_samples' = ms
        /\ algorithm' = alg
        /\ algorithm_used' = None
        /\ labels' = <<>>
        /\ supported' = supported
        /\ min_compl' = mc
        /\ cl' = IF num_above = 1 THEN <<1>> ELSE <<>>
        /\ qbar' = IF num_above = 1 THEN <<column(Select(q, mask))>> ELSE <<>>
        /\ qfib_r' = IF num_above > 1 THEN Select(q, mask) ELSE <<>>
        /\ log' = IF num_above > 1 THEN <<Feeding(num_above)>> ELSE <<>>
        /\ pc' = IF num_above > 1 THEN "rc_loop" ELSE "rc_return"
        /\ calls' = <<>>
        /\ clusters_dat' = <<>>
        /\ error' = NoError
        /\ result' = NoResult

\* a caller invokes run_cluster
RunCluster ==
    /\ pc = "idle"
    /\ \E n \in 0..MaxN :
       \E c \in [1..n -> Levels], cc \in Levels, ct \in Levels \cup {NoneNum},
          alg \in AlgNames :
          run_cluster_begin("run_cluster", c, Pool(n), cc, alg, ct, NoneNum)
    /\ UNCHANGED <<regvars, flagvars, coms, fovars>>

\* one pass of "while algorithm is not None" up to the outcome of the strategy
Dispatch ==
    /\ pc = "rc_loop"
    /\ IF algorithm = None
       THEN /\ pc' = "rc_centroids"
            /\ UNCHANGED <<cl, labels, calls, log, error, algorithm, algorithm_used>>
       ELSE IF ~lookup(registry, algorithm).found
       THEN /\ error' = NotRecognized(algorithm)
            /\ pc' = "raised"
            /\ UNCHANGED <<cl, labels, calls, log, algorithm, algorithm_used>>
       ELSE LET fn == lookup(registry, algorithm).option.fn
            IN  /\ log' = Append(log, Trying(algorithm))
                /\ calls' = Append(calls, fn)
                /\ \E r \in call_fn(fn, qfib_r, min_samples,
                                    have_sklearn, have_parallel_dbscan) :
                      IF r.error = None
                      THEN /\ cl' = r.cl
                           /\ labels' = r.labels
                           /\ algorithm_used' = algorithm
                           /\ algorithm' = None
                           /\ pc' = "rc_loop"
                           /\ error' = error
                      ELSE /\ error' = Raised(r.error)
                           /\ pc' = "rc_except"
                           /\ UNCHANGED <<cl, labels, algorithm, algorithm_used>>
    /\ UNCHANGED <<regvars, flagvars, coms, fovars, entry, cfg_completeness,
                   cfg_algorithm, compl, qfib, compl_thresh, min_samples,
                   min_compl, qfib_r, qbar, clusters_dat, result, supported>>

\* except ClusterMethodUnavailableError as error: ...
Except ==
    /\ pc = "rc_except"
    /\ IF "msg" \notin ExceptionAttrs
       THEN \* logger.info(error.msg): the attribute lookup raises
            /\ error' = NoAttribute("msg")
            /\ pc' = "raised"
            /\ UNCHANGED <<algorithm, log>>
       ELSE LET fb == lookup(registry, algorithm).option.fallback
            IN  IF fb = None
                THEN /\ error' = NoFallback(algorithm)
                     /\ pc' = "raised"
                     /\ UNCHANGED <<algorithm, log>>
                ELSE /\ log' = Append(log, FailedTrying(algorithm, fb))
                     /\ algorithm' = fb
                     /\ error' = NoError
                     /\ pc' = "rc_loop"
    /\ UNCHANGED <<regvars, flagvars, coms, fovars, entry, cfg_completeness, cfg_algorithm,
                   compl, qfib, compl_thresh, min_samples, min_compl, qfib_r,
                   algorithm_used, labels, cl, qbar, calls, clusters_dat, result,
                   supported>>

\* after the loop: clusters.dat is written and the centroids are computed
Centroids ==
    /\ pc = "rc_centroids"
    /\ log' = Append(log, ClusteringDone)
    /\ clusters_dat' = cl
    /\ calls' = Append(calls, "compute_centroids")
    /\ LET r == compute_centroids(qfib_r, cl)
       IN  /\ qbar' = r.qbar
           /\ error' = IF r.error = None THEN NoError ELSE Raised(r.error)
           /\ pc' = IF r.error = None THEN "rc_return" ELSE "raised"
    /\ UNCHANGED <<regvars, flagvars, coms, fovars, entry, cfg_completeness, cfg_algorithm,
                   compl, qfib, compl_thresh, min_samples, min_compl, qfib_r,
                   algorithm, algorithm_used, labels, cl, result, supported>>

\* the two closing log records and "return np.atleast_2d(qbar), cl"
Return ==
    /\ pc = "rc_return"
    /\ log' = log \o <<ClusteringTook, Found>>
    /\ result' = [returned |-> TRUE, qbar |-> qbar, cl |-> cl]
    /\ pc' = IF entry = "find_orientations" THEN "fo_persist" ELSE "done"
    /\ UNCHANGED <<regvars, flagvars, coms, fovars, entry, cfg_completeness, cfg_algorithm,
                   compl, qfib, compl_thresh, min_samples, min_compl, qfib_r,
                   algorithm, algorithm_used, labels, cl, qbar, calls,
                   clusters_dat, error, supported>>

\* a caller invokes compute_centroids on its own
ComputeCentroids ==
    /\ pc = "idle"
    /\ \E n \in 1..MaxN :
       \E ids \in [1..n -> -1..MaxId] :
          LET r == compute_centroids(Pool(n), ids)
          IN  /\ qfib_r' = Pool(n)
              /\ cl' = ids
              /\ qbar' = r.qbar
              /\ error' = IF r.error = None THEN NoError ELSE Raised(r.error)
              /\ result' = IF r.error = None
                           THEN [returned |-> TRUE, qbar |-> r.qbar, cl |-> <<>>]
                           ELSE NoResult
              /\ pc' = IF r.error = None THEN "done" ELSE "raised"
    /\ entry' = "compute_centroids"
    /\ calls' = <<"compute_centroids">>
    /\ UNCHANGED <<regvars, flagvars, coms, fovars, cfg_completeness, cfg_algorithm, compl,
                   qfib, compl_thresh, min_samples, min_compl, algorithm,
                   algorithm_used, labels, log, clusters_dat, supported>>

\* a caller (the configuration parser) asks for the supported names
GetSupported ==
    /\ pc = "idle"
    /\ entry' = "get_supported_clustering_algorithms"
    /\ supported' = get_supported_clustering_algorithms(registry)
    /\ pc' = "done"
    /\ UNCHANGED <<regvars, flagvars, coms, fovars, cfg_completeness, cfg_algorithm,
                   compl, qfib, compl_thresh, min_samples, min_compl, qfib_r,
                   algorithm, algorithm_used, labels, cl, qbar, calls, log,
                   clusters_dat, error, result>>

\* -------------------------------------------------------- find_orientations
GridStates == {"readable", "missing", "malformed"}

\* only IOError is caught
grid_load_fails_caught_ioerror_only(g) ==
    IF g = "missing" THEN "caught" ELSE IF g = "malformed" THEN "ValueError" ELSE None

\* the try block around np.loadtxt(qgrid_f): a missing file raises IOError, a
\* file that does not parse raises ValueError, and both are caught
grid_load_fails(g) == IF g \in {"missing", "malformed"} THEN "caught" ELSE None

\* max(a, b) of Python: a unless b is greater
py_max(a, b) == IF b > a THEN b ELSE a

\* the lower limit taken as 1
seeded_min_samples_limit_one(cc, f) == py_max(cc * f, 1 * ComplDen)

\* max(cfg_completeness*np.floor(np.average(num_seed_refls)), 2), times ComplDen
seeded_min_samples(cc, f) == py_max(cc * f, 2 * ComplDen)

\* a caller invokes find_orientations: the experiment and the maps are set up
FindOrientations ==
    /\ pc = "idle"
    /\ entry' = "find_orientations"
    /\ \E cc \in Levels, g \in GridStates :
          /\ cfg_completeness' = cc
          /\ grid' = g
    /\ stages' = <<"initialize_experiment", "load_eta_ome_maps">>
    /\ pc' = "fo_select"
    /\ UNCHANGED <<regvars, flagvars, coms, cfg_algorithm, compl, qfib, compl_thresh,
                   min_samples, min_compl, qfib_r, algorithm, algorithm_used,
                   labels, cl, qbar, calls, log, clusters_dat, error, result,
                   supported, hkl_ids, seed_floor, accepted_dat>>

\* the try/except that settles where the trial orientations come from, up to
\* the log record that reads quats.shape[1]
SelectSearchMode ==
    /\ pc = "fo_select"
    /\ LET failure == grid_load_fails(grid)
       IN  IF failure = None
           THEN \* np.loadtxt(qgrid_f).T of a file of n rows; one row loads
                \* as a one-dimensional array, which has no shape[1]
                /\ hkl_ids' = None
                /\ stages' = stages
                /\ \E n \in 1..MaxN :
                      /\ qfib' = Pool(n)
                      /\ pc' = IF n = 1 THEN "raised" ELSE "fo_score"
                      /\ error' = IF n = 1 THEN Raised("IndexError") ELSE NoError
           ELSE IF failure = "caught"
           THEN /\ hkl_ids' = "list"
                /\ stages' = Append(stages, "generate_orientation_fibers")
                /\ \E n \in 0..MaxN : qfib' = Pool(n)
                /\ pc' = "fo_score"
                /\ error' = NoError
           ELSE /\ error' = Raised(failure)
                /\ pc' = "raised"
                /\ UNCHANGED <<hkl_ids, stages, qfib>>
    /\ UNCHANGED <<regvars, flagvars, coms, entry, cfg_completeness, cfg_algorithm,
                   compl, compl_thresh, min_samples, min_compl, qfib_r,
                   algorithm, algorithm_used, labels, cl, qbar, calls, log,
                   clusters_dat, result, supported, grid, seed_floor,
                   accepted_dat>>

\* idx.paintGrid scores every trial orientation
Score ==
    /\ pc = "fo_score"
    /\ stages' = Append(stages, "paintGrid")
    /\ \E c \in [1..Len(qfib) -> Levels] : compl' = c
    /\ pc' = "fo_estimate"
    /\ UNCHANGED <<regvars, flagvars, coms, entry, cfg_completeness, cfg_algorithm,
                   qfib, compl_thresh, min_samples, min_compl, qfib_r,
                   algorithm, algorithm_used, labels, cl, qbar, calls, log,
                   clusters_dat, error, result, supported, grid, hkl_ids,
                   seed_floor, accepted_dat>>

\* "if hkl_ids is not None": ngrains random grains are simulated and
\* min_samples follows from their seed reflections; else min_samples = 1
Estimate ==
    /\ pc = "fo_estimate"
    /\ IF hkl_ids # None
       THEN /\ stages' = Append(stages, "simulateGVecs")
            /\ \E total \in 0..(ngrains * MaxSeedRefl) :
                  /\ seed_floor' = total \div ngrains
                  /\ min_samples' = seeded_min_samples(cfg_completeness,
                                                       total \div ngrains)
       ELSE /\ min_samples' = 1 * ComplDen
            /\ UNCHANGED <<stages, seed_floor>>
    /\ pc' = "fo_cluster"
    /\ UNCHANGED <<regvars, flagvars, coms, entry, cfg_completeness, cfg_algorithm,
                   compl, qfib, compl_thresh, min_compl, qfib_r, algorithm,
                   algorithm_used, labels, cl, qbar, calls, log, clusters_dat,
                   error, result, supported, grid, hkl_ids, accepted_dat>>

\* run_cluster(compl, quats, pd.getQSym(), cfg, min_samples=min_samples); the
\* algorithm name of cfg is read here for the first time
Cluster ==
    /\ pc = "fo_cluster"
    /\ stages' = Append(stages, "run_cluster")
    /\ \E alg \in AlgNames :
          run_cluster_begin("find_orientations", compl, qfib, cfg_completeness,
                            alg, NoneNum, min_samples)
    /\ UNCHANGED <<regvars, flagvars, coms, grid, hkl_ids, seed_floor, accepted_dat>>

\* accepted_orientations.dat is written and find_orientations returns
Persist ==
    /\ pc = "fo_persist"
    /\ accepted_dat' = result.qbar
    /\ pc' = "done"
    /\ UNCHANGED <<regvars, flagvars, coms, rcvars, grid, hkl_ids, seed_floor, stages>>

\* ---------------------------------------------- generate_orientation_fibers
\* what the labeling pass leaves for one blob: its centre of mass, NaN or
\* defined, and the number of distinct quaternions its fiber will have
Blobs ==
    {[com |-> "nan", ncols |-> 0]} \cup
    {[com |-> "defined", ncols |-> k] : k \in 1..MaxFiberCols}

\* the sequences over S of length lo..hi
SeqsOf(S, lo, hi) == UNION {[1..m -> S] : m \in lo..hi}

\* mutil.uniqueVectors(rot.discreteFiber(...)[0]) for blob ispot of seed i
discreteFiber(i, ispot, ncols) ==
    [k \in 1..ncols |-> [hkl |-> i, spot |-> ispot, col |-> k]]

\* for ispot in range(numSpots[i]): the columns written to qfib_tmp[:, :ii]
\* from blob ispot onwards; a blob whose centre of mass is NaN writes nothing
RECURSIVE fiber_loop(_, _, _)
fiber_loop(i, spots, ispot) ==
    IF ispot > Len(spots) THEN <<>>
    ELSE (IF spots[ispot].com # "nan"
          THEN discreteFiber(i, ispot, spots[ispot].ncols)
          ELSE <<>>) \o fiber_loop(i, spots, ispot + 1)

\* np.hstack(qfib) over the seeds from i onwards
RECURSIVE hstack_from(_, _)
hstack_from(c, i) ==
    IF i > Len(c) THEN <<>>
    ELSE fiber_loop(i, c[i], 1) \o hstack_from(c, i + 1)

\* the value generate_orientation_fibers returns for the labeled blobs c
generate_orientation_fibers(c) == hstack_from(c, 1)

\* generate_orientation_fibers is called directly; the function has no logger
\* call and returns the pool alone
GenerateOrientationFibers ==
    /\ pc = "idle"
    /\ \E c \in SeqsOf(SeqsOf(Blobs, 0, MaxSpots), 1, MaxSeeds) :
          /\ coms' = c
          /\ qfib' = generate_orientation_fibers(c)
    /\ entry' = "generate_orientation_fibers"
    /\ log' = <<>>
    /\ pc' = "done"
    /\ UNCHANGED <<regvars, flagvars, fovars, cfg_completeness, cfg_algorithm,
                   compl, compl_thresh, min_samples, min_compl, qfib_r,
                   algorithm, algorithm_used, labels, cl, qbar, calls,
                   clusters_dat, error, result, supported>>

\* the module as a library: registrations and direct calls of its functions
Next ==
    \/ LoadModule
    \/ Register
    \/ RunCluster
    \/ Dispatch
    \/ Except
    \/ Centroids
    \/ Return
    \/ ComputeCentroids
    \/ GetSupported

Spec == Init /\ [][Next]_vars

\* the module as the program: it is loaded and find_orientations is run
NextFO ==
    \/ LoadModule
    \/ FindOrientations
    \/ SelectSearchMode
    \/ Score
    \/ Estimate
    \/ Cluster
    \/ Dispatch
    \/ Except
    \/ Centroids
    \/ Return
    \/ Persist

SpecFO == Init /\ [][NextFO]_vars

\* the module as a library of the seeded search: it is loaded and
\* generate_orientation_fibers is called
NextFibers ==
    \/ LoadModule
    \/ GenerateOrientationFibers

SpecFibers == Init /\ [][NextFibers]_vars

\* run_cluster on the registry as the module load leaves it; a call of
\* run_cluster is one thread of sequential code, so a pass of its loop that
\* can be taken is taken
NextRunCluster ==
    \/ LoadModule
    \/ RunCluster
    \/ Dispatch
    \/ Except
    \/ Centroids
    \/ Return

SpecRunCluster ==
    /\ Init
    /\ [][NextRunCluster]_vars
    /\ WF_vars(Dispatch)
    /\ WF_vars(Except)

\* ================================================================== claims
\* run_cluster has been entered by the running call
RunClusterCalled ==
    \/ entry = "run_cluster"
    \/ entry = "find_orientations" /\ "run_cluster" \in Range(stages)

\* the running call is past run_cluster's return statement
RunClusterReturned == RunClusterCalled /\ result.returned

\* the threshold the caller asked for, read off the arguments
AskedThreshold == IF compl_thresh = NoneNum THEN cfg_completeness ELSE compl_thresh

\* positions of the orientations whose completeness exceeds the threshold
AboveSet == {j \in DOMAIN compl : compl[j] > AskedThreshold}

\* the names run_cluster tried, in order
RECURSIVE TriedIn(_)
TriedIn(records) ==
    IF records = <<>> THEN <<>>
    ELSE (IF Head(records).msg = "Trying" THEN Head(records).names ELSE <<>>)
         \o TriedIn(Tail(records))

Tried == TriedIn(log)

\* strategy a raises ClusterMethodUnavailableError on the current input
SignalsUnavailable(a) ==
    /\ a \in DOMAIN registry
    /\ Unavailable \in call_fn(registry[a].fn, qfib_r, min_samples,
                               have_sklearn, have_parallel_dbscan)

\* what run_cluster returns when a is the configured strategy and it works
DirectResults(a) ==
    {[returned |-> TRUE, qbar |-> compute_centroids(qfib_r, r.cl).qbar, cl |-> r.cl] :
        r \in call_fn(registry[a].fn, qfib_r, min_samples,
                      have_sklearn, have_parallel_dbscan)}

\* C1: with two or more orientations above the threshold, a configured
\* strategy that signals unavailable and declares a working fallback makes
\* run_cluster return what the fallback returns when configured directly, and
\* the substitution is reported in the log.
C1_FallbackChaining ==
    ( /\ RunClusterCalled
      /\ pc \in {"done", "fo_persist", "raised"}
      /\ Cardinality(AboveSet) >= 2
      /\ SignalsUnavailable(cfg_algorithm)
      /\ registry[cfg_algorithm].fallback \in DOMAIN registry
      /\ ~SignalsUnavailable(registry[cfg_algorithm].fallback) )
    => /\ result \in DirectResults(registry[cfg_algorithm].fallback)
       /\ \E i \in DOMAIN log :
             log[i] = FailedTrying(cfg_algorithm, registry[cfg_algorithm].fallback)

\* C2: when no completeness value is strictly above the effective threshold,
\* run_cluster invokes no strategy and no centroid computation, raises nothing
\* and returns an empty centroid set with an empty assignment, whatever the
\* configured name and the backends are.
C2_NothingAboveThreshold ==
    (RunClusterCalled /\ AboveSet = {})
    => /\ calls = <<>>
       /\ error = NoError
       /\ pc \in {"rc_return", "fo_persist", "done"}
       /\ pc # "rc_return" => result = [returned |-> TRUE, qbar |-> <<>>, cl |-> <<>>]

\* C2 witness: an override threshold equal to the only values present, above
\* the configured one, with a name the registry lacks and no backend at all
C2_Witness ==
    /\ entry = "run_cluster"
    /\ pc = "done"
    /\ Len(compl) >= 2
    /\ compl_thresh # NoneNum
    /\ \A j \in DOMAIN compl : compl[j] = compl_thresh /\ compl[j] > cfg_completeness
    /\ cfg_algorithm \notin DOMAIN registry
    /\ ~have_sklearn /\ ~have_parallel_dbscan
    /\ result.returned /\ result.qbar = <<>> /\ result.cl = <<>>

\* C3: with exactly one orientation above the threshold, run_cluster returns
\* that pool column as it is for sole centroid and <<1>> for assignment, and
\* invokes neither a strategy nor compute_centroids, whatever the configured name.
C3_SingleOrientation ==
    (RunClusterCalled /\ Cardinality(AboveSet) = 1)
    => /\ calls = <<>>
       /\ error = NoError
       /\ pc \in {"rc_return", "fo_persist", "done"}
       /\ pc # "rc_return" =>
            result = [returned |-> TRUE,
                      qbar |-> <<column(<<qfib[CHOOSE j \in AboveSet : TRUE]>>)>>,
                      cl |-> <<1>>]

\* C3 witness: the second of two orientations is the one above the threshold
\* and the configured name is not registered
C3_Witness ==
    /\ entry = "run_cluster"
    /\ pc = "done"
    /\ AboveSet = {2}
    /\ cfg_algorithm \notin DOMAIN registry
    /\ result.qbar = <<column(<<2>>)>>
    /\ result.cl = <<1>>

\* C4 as stated: whatever the completeness vector and the pool, run_cluster
\* with a configured name the registry lacks never returns a result.
C4_UnknownNameAlwaysFatal ==
    (RunClusterCalled /\ cfg_algorithm \notin DOMAIN registry) => ~result.returned

\* C4 amended: with two or more orientations above the threshold, run_cluster
\* with a configured name the registry lacks invokes nothing, never returns a
\* result and ends in RuntimeError "not recognized" naming that name.
C4_UnknownNameFatalWhenDispatched ==
    (RunClusterCalled /\ cfg_algorithm \notin DOMAIN registry /\ Cardinality(AboveSet) >= 2)
    => /\ ~result.returned
       /\ calls = <<>>
       /\ pc \in {"rc_loop", "raised"}
       /\ pc = "raised" => error = NotRecognized(cfg_algorithm)

\* C4 witness: the dispatch of an unregistered name has raised
C4_Witness ==
    /\ RunClusterCalled
    /\ cfg_algorithm = "bogus"
    /\ Cardinality(AboveSet) >= 2
    /\ pc = "raised"
    /\ error.type = "RuntimeError"

\* C5: when the strategy tried last has no fallback and signals unavailable,
\* run_cluster returns nothing, computes no centroid, and the error it raises
\* names every strategy tried in this dispatch.
C5_ChainExhaustionReported ==
    ( /\ RunClusterCalled
      /\ pc = "raised"
      /\ Tried # <<>>
      /\ SignalsUnavailable(Tried[Len(Tried)])
      /\ registry[Tried[Len(Tried)]].fallback = None )
    => /\ ~result.returned
       /\ qbar = <<>>
       /\ "compute_centroids" \notin Range(calls)
       /\ error.names = Tried

\* compute_centroids has returned in the running call
CentroidsComputed ==
    \/ entry = "compute_centroids" /\ pc = "done"
    \/ RunClusterCalled /\ "compute_centroids" \in Range(calls) /\ pc # "raised"

\* the non-zero ids of the assignment
ClusterIds == Range(cl) \ {0}

\* the orientations carrying id, in pool order
MembersOf(id) == Select(qfib_r, [j \in DOMAIN cl |-> cl[j] = id])

\* C6: for a non-empty assignment of non-negative ids, compute_centroids
\* returns one centroid per distinct non-zero id; the centroid in position i
\* is the average of exactly the members of the i-th smallest non-zero id.
C6_CentroidPerCluster ==
    (CentroidsComputed /\ cl # <<>> /\ \A j \in DOMAIN cl : cl[j] >= 0)
    => /\ Len(qbar) = Cardinality(ClusterIds)
       /\ \A i \in DOMAIN qbar :
             \E id \in ClusterIds :
                /\ Cardinality({other \in ClusterIds : other < id}) = i - 1
                /\ qbar[i] = quatAverage(MembersOf(id))

\* C6 witness: ids met in descending order, not contiguous, clusters of size 1
C6_Witness ==
    /\ entry = "compute_centroids"
    /\ pc = "done"
    /\ cl = <<3, 2>>
    /\ qbar = <<quatAverage(<<2>>), quatAverage(<<1>>)>>

\* an assignment that is all noise, for which no centroid is returned
C6_AllNoiseReached ==
    /\ CentroidsComputed
    /\ cl # <<>>
    /\ \A j \in DOMAIN cl : cl[j] = 0
    /\ qbar = <<>>

DensityFns == {"cluster_quaternion_im_dbscan", "cluster_parallel_dbscan",
               "cluster_homochoric_dbscan", "cluster_dbscan"}
HierarchicalFns == {"cluster_fcluster", "cluster_qim_fclusterdata"}

\* C7: the ids a registered strategy returns are non-negative; a point the
\* backend put in a cluster gets a positive id and two points share an id
\* exactly when they share a backend label; id 0 is what a density-based
\* strategy gives the backend's noise label -1, and a hierarchical strategy
\* never returns it.
C7_StrategyIds ==
    (RunClusterCalled /\ algorithm_used # None)
    => LET fn == registry[algorithm_used].fn
       IN  /\ Len(cl) = Len(qfib_r)
           /\ \A j \in DOMAIN cl : cl[j] >= 0
           /\ \A j, k \in DOMAIN cl : (cl[j] = cl[k]) <=> (labels[j] = labels[k])
           /\ fn \in DensityFns =>
                 \A j \in DOMAIN cl : (cl[j] = 0) <=> (labels[j] = -1)
           /\ fn \in HierarchicalFns => \A j \in DOMAIN cl : cl[j] > 0
           /\ fn \in DensityFns \cup HierarchicalFns

\* C7 witness: the precomputed-distance dbscan returned one noise point and
\* one clustered point
C7_Witness ==
    /\ RunClusterReturned
    /\ algorithm_used = "dbscan"
    /\ 0 \in Range(cl)
    /\ \E j \in DOMAIN cl : cl[j] > 0

\* a step that uses the decorator
DecoratorUsed == reg_call' # reg_call \/ nload' # nload \/ reg_error' # reg_error

\* C8: a use of the decorator with a name already registered raises and
\* leaves every entry as it was; a use with a new name adds that entry and
\* touches no other; no step of run_cluster, compute_centroids,
\* find_orientations, get_supported_clustering_algorithms or a strategy
\* changes the registry.
C8_RegistryOnlyGrowsByRegistration ==
    [][ /\ (registry' # registry) => DecoratorUsed
        /\ (DecoratorUsed /\ reg_call'.key \in DOMAIN registry)
              => (registry' = registry /\ reg_error' = "AssertionError")
        /\ (DecoratorUsed /\ reg_call'.key \notin DOMAIN registry)
              => /\ reg_error' = None
                 /\ DOMAIN registry' = (DOMAIN registry) \cup {reg_call'.key}
                 /\ registry'[reg_call'.key] =
                       clustering_option(reg_call'.fn, reg_call'.fallback)
                 /\ \A k \in DOMAIN registry : registry'[k] = registry[k]
        /\ (pc \notin {"load", "idle"}) => registry' = registry ]_vars

\* C8 witness: 'dbscan' was registered a second time with another function
\* and fallback, the first registration stands, and run_cluster ran afterwards
C8_Witness ==
    /\ reg_error = "AssertionError"
    /\ reg_call = [key |-> "dbscan", fn |-> "cluster_fcluster", fallback |-> None]
    /\ registry["dbscan"] = clustering_option("cluster_dbscan", "fclusterdata")
    /\ RunClusterReturned
    /\ algorithm_used = "dbscan"

\* position of stage name in the stages called so far, 0 when absent
StageIndex(name) ==
    IF name \in Range(stages)
    THEN CHOOSE i \in DOMAIN stages : stages[i] = name
    ELSE 0

\* C9: with a readable grid file neither fiber generation nor the
\* neighborhood estimation ever runs and run_cluster gets min_samples = 1;
\* with a missing or malformed grid file nothing is raised before run_cluster
\* is entered, fiber generation runs before scoring, and the estimation runs
\* after scoring and before clustering.
C9_SearchMode ==
    (entry = "find_orientations")
    => /\ grid = "readable" =>
            /\ "generate_orientation_fibers" \notin Range(stages)
            /\ "simulateGVecs" \notin Range(stages)
            /\ RunClusterCalled => min_samples = 1 * ComplDen
       /\ grid \in {"missing", "malformed"} =>
            /\ pc = "raised" => RunClusterCalled
            /\ pc # "fo_select" => "generate_orientation_fibers" \in Range(stages)
            /\ "paintGrid" \in Range(stages) =>
                  StageIndex("generate_orientation_fibers") < StageIndex("paintGrid")
            /\ pc \notin {"fo_select", "fo_score", "fo_estimate"} =>
                  /\ 0 < StageIndex("paintGrid")
                  /\ StageIndex("paintGrid") < StageIndex("simulateGVecs")
            /\ RunClusterCalled =>
                  /\ 0 < StageIndex("simulateGVecs")
                  /\ StageIndex("simulateGVecs") < StageIndex("run_cluster")

\* C9 witness: a malformed grid file, and the seeded run completed
C9_Witness ==
    /\ entry = "find_orientations"
    /\ grid = "malformed"
    /\ pc = "done"
    /\ stages = <<"initialize_experiment", "load_eta_ome_maps",
                  "generate_orientation_fibers", "paintGrid", "simulateGVecs",
                  "run_cluster">>

\* the larger of two numbers
Larger(a, b) == IF a >= b THEN a ELSE b

\* C10: in a seeded search the min_samples run_cluster receives is the
\* larger of completeness threshold times floor(average seed-reflection
\* count) and 2, hence never below 2.
C10_SeededMinSamples ==
    (entry = "find_orientations" /\ hkl_ids # None /\ pc \notin {"fo_score", "fo_estimate"})
    => /\ min_samples = Larger(cfg_completeness * seed_floor, 2 * ComplDen)
       /\ min_samples >= 2 * ComplDen
       /\ cfg_completeness \in 0..ComplDen

\* C10 witness: no seed reflection on average, threshold 1, run_cluster entered
C10_Witness ==
    /\ entry = "find_orientations"
    /\ hkl_ids # None
    /\ RunClusterCalled
    /\ seed_floor = 0
    /\ cfg_completeness = ComplDen
    /\ min_samples = 2 * ComplDen

\* ---- C11
\* generate_orientation_fibers has returned to its caller
FibersReturned == entry = "generate_orientation_fibers" /\ pc = "done"

\* the blobs (seed, spot) the fiber loop skipped: their centre of mass is NaN
SkippedBlobs ==
    {p \in (1..MaxSeeds) \X (1..MaxSpots) :
        /\ p[1] \in DOMAIN coms
        /\ p[2] \in DOMAIN coms[p[1]]
        /\ coms[p[1]][p[2]].com = "nan"}

\* the columns of the returned pool that come from blob p
ColumnsOf(p) == {j \in DOMAIN qfib : qfib[j].hkl = p[1] /\ qfib[j].spot = p[2]}

\* the operator is told that blob p was skipped; the function returns the pool
\* alone, so the only channel left for a report is a log record
SkipReported(p) ==
    \E r \in DOMAIN log : log[r].msg = "Skipping" /\ log[r].names = <<p[1], p[2]>>

\* a skipped blob contributes no column to the returned pool
SkippedBlobsContributeNothing ==
    FibersReturned => \A p \in SkippedBlobs : ColumnsOf(p) = {}

\* some blob was skipped and some other blob contributed its fiber
SkipHappened == FibersReturned /\ SkippedBlobs # {} /\ qfib # <<>>

\* C11: whenever generate_orientation_fibers skips a labeled blob because its
\* centroid is NaN, the blob contributes zero columns to the returned pool and
\* the skip is reported to the operator (logged or returned), not swallowed.
C11_EverySkipReported ==
    FibersReturned =>
        \A p \in SkippedBlobs : ColumnsOf(p) = {} /\ SkipReported(p)

\* ---- C12
\* the names d visits from a by following fallbacks, for at most fuel steps
RECURSIVE fallback_chain(_, _, _)
fallback_chain(d, a, fuel) ==
    IF a = None \/ a \notin DOMAIN d \/ fuel = 0 THEN <<>>
    ELSE <<a>> \o fallback_chain(d, d[a].fallback, fuel - 1)

\* the chain of a in the current registry, one step longer than any chain
\* without a repeated name can be
ChainFrom(a) == fallback_chain(registry, a, Cardinality(DOMAIN registry) + 1)

NoRepeat(s) == \A i, j \in DOMAIN s : i # j => s[i] # s[j]

\* the fallback relation the module declares
DeclaredFallback ==
    [k \in DeclaredKeys |->
        CASE k = "omp-dbscan" -> "homochoric-dbscan"
          [] k = "homochoric-dbscan" -> "dbscan"
          [] k = "dbscan" -> "fclusterdata"
          [] k = "qim-fclusterdata" -> "fclusterdata"
          [] OTHER -> None]

\* the registry after the load: every fallback is registered or absent, the
\* relation is the declared one, and no chain repeats a name or exceeds four
RegistryWellFounded ==
    pc # "load" /\ reg_error = None =>
        /\ DOMAIN registry = DeclaredKeys
        /\ \A k \in DOMAIN registry :
              /\ registry[k].fallback \in DOMAIN registry \cup {None}
              /\ registry[k].fallback = DeclaredFallback[k]
              /\ NoRepeat(ChainFrom(k))
              /\ Len(ChainFrom(k)) <= 4

\* the dispatch loop of run_cluster is running on a registered starting name
LoopRunning ==
    /\ RunClusterCalled
    /\ pc \in {"rc_loop", "rc_except"}
    /\ algorithm # None
    /\ cfg_algorithm \in DOMAIN registry

\* the loop is over: a strategy succeeded, or an error left run_cluster
LoopEnded ==
    \/ algorithm = None /\ algorithm_used \in DOMAIN registry
    \/ pc = "raised" /\ error # NoError

\* no strategy is tried twice, and at most four are tried
TriedOnceEach ==
    RunClusterCalled =>
        /\ NoRepeat(Tried)
        /\ Len(Tried) <= 4
        /\ Len(calls) <= 4 + (IF "compute_centroids" \in Range(calls) THEN 1 ELSE 0)

\* the loop ended in an error after the one strategy it tried was unavailable
C12_Witness ==
    /\ entry = "run_cluster"
    /\ cfg_algorithm = "omp-dbscan"
    /\ ~have_parallel_dbscan
    /\ Tried = <<"omp-dbscan">>
    /\ LoopEnded
    /\ pc = "raised"

\* C12: in the registry as built at load time every declared fallback names a
\* registered strategy and the fallback relation is the acyclic one the module
\* declares; for every registered starting name and every availability of the
\* backends each strategy is tried at most once, at most four are invoked, and
\* the dispatch loop ends in a successful strategy or a fatal error.
C12_DispatchTerminates ==
    /\ [](RegistryWellFounded /\ TriedOnceEach)
    /\ (LoopRunning ~> LoopEnded)

====
